---- MODULE Spec2Model ----
(***************************************************************************)
(* Model of ns3::Node as modified by the STEALTH project (src/node.cc,     *)
(* src/node.h): the protocol handler registry, the neighbor directory and  *)
(* the attending (service request) queue of one node.                      *)
(*                                                                         *)
(* Every public operation of the node is one action.  The variables call,  *)
(* ret, invoked, notified and old record the last call, its result, the    *)
(* callbacks it made and the registries as they were before it, so that    *)
(* the properties of an operation are state predicates.                    *)
(*                                                                         *)
(* Undefined behaviour (use of an invalidated or singular iterator,        *)
(* dereferencing end()) is a choice between the outcomes a build can       *)
(* produce: the raw-pointer outcome of an unchecked build, or an abort     *)
(* (fault = TRUE), after which the node executes nothing more.             *)
(***************************************************************************)
EXTENDS Integers, Sequences, FiniteSets, TLC

\* ------------------------------------------------------------------ bounds
MaxHandlers == 2
MaxNeighbors == 2
MaxAttending == 3
MaxCompetences == 2
MaxListeners == 3

\* ------------------------------------------------------------------ inputs
Handlers == {"h1", "h2"}
Devices == {"dev1", "dev2"}
Listeners == {"l1", "l2"}
NoDevice == "null"
HandlerDevices == {NoDevice, "dev1"}
ProtocolFilters == {0, 2048}
FrameProtocols == {2048, 2054}
ToAddresses == {"mac_other"}
PacketTypes == {4}

Addresses == {"ip1", "ip2"}
Competences == {"doctor", "nurse"}
InterestLists == {<<"vitals">>}
Trusts == {0, 4, 9}
CriticalDatas == {"InfoA", "InfoB"}
Priorities == {0, 1}
Times == {10}
GarbageAddress == "garbage"

\* Node::GetId: the id NodeList::Add gave the node; Simulator::GetContext
\* is an input of a frame delivery.
GetId == 0
Contexts == {0, 1}

VARIABLES m_handlers, m_devices, promiscCb, m_deviceAdditionListeners,
          m_neighborList, m_attendingList,
          call, ret, invoked, notified, old, round, fault

vars == <<m_handlers, m_devices, promiscCb, m_deviceAdditionListeners,
          m_neighborList, m_attendingList,
          call, ret, invoked, notified, old, round, fault>>

\* round observes the discovery protocol: open since the last
\* TurnOffLiveNeighbors with no other mutation of the directory than
\* TurnNeighborOn, and the addresses confirmed since; marked since the last
\* TurnOffLiveNeighbors with no other mutation than TurnNeighborOn and
\* RegisterNeighbor, and live, the positions of the records that
\* TurnNeighborOn stopped at or RegisterNeighbor appended since.
NoRound == [open |-> FALSE, confirmed |-> {}, marked |-> FALSE, live |-> {}]

\* ----------------------------------------------------------------- helpers
Range(s) == {s[k] : k \in 1..Len(s)}

\* std::vector::erase(begin() + (k-1))
Erase(s, k) == SubSeq(s, 1, k - 1) \o SubSeq(s, k + 1, Len(s))

\* The registries as they are when a call starts.
Snapshot == [handlers |-> m_handlers, neighbors |-> m_neighborList,
             attending |-> m_attendingList]

Init ==
    /\ m_handlers = <<>>
    /\ m_devices = <<>>
    /\ promiscCb = {}
    /\ m_deviceAdditionListeners = <<>>
    /\ m_neighborList = <<>>
    /\ m_attendingList = <<>>
    /\ call = [op |-> "Node"]
    /\ ret = "void"
    /\ invoked = <<>>
    /\ notified = <<>>
    /\ old = [handlers |-> <<>>, neighbors |-> <<>>, attending |-> <<>>]
    /\ round = NoRound
    /\ fault = FALSE

\* ============================================================ devices
\* NetDevice::GetAddress of a device.
GetAddress(device) == IF device = "dev1" THEN "mac_dev1" ELSE "mac_dev2"

\* Variant of NotifyDeviceAdded that goes through the list from its end.
NotifyDeviceAddedReversed(listeners, device) ==
    [k \in 1..Len(listeners) |->
        [listener |-> listeners[Len(listeners) + 1 - k], device |-> device]]

\* Node::NotifyDeviceAdded: every listener is called with the device, in
\* list order.
NotifyDeviceAdded(listeners, device) ==
    [k \in 1..Len(listeners) |-> [listener |-> listeners[k], device |-> device]]

\* Node::AddDevice.  A device object is added to a node once.
AddDevice(device) ==
    /\ ~fault
    /\ device \notin Range(m_devices)
    /\ m_devices' = Append(m_devices, device)
    /\ notified' = NotifyDeviceAdded(m_deviceAdditionListeners, device)
    /\ call' = [op |-> "AddDevice", device |-> device]
    /\ ret' = Len(m_devices)
    /\ invoked' = <<>>
    /\ old' = Snapshot
    /\ UNCHANGED <<m_handlers, promiscCb, m_deviceAdditionListeners,
                   m_neighborList, m_attendingList, round, fault>>

\* The loop of Node::RegisterDeviceAdditionListener: the new listener is
\* called with every device of the list, in list order.
NotifyExistingDevices(listener, devices) ==
    [k \in 1..Len(devices) |-> [listener |-> listener, device |-> devices[k]]]

\* Node::RegisterDeviceAdditionListener.
RegisterDeviceAdditionListener(listener) ==
    /\ ~fault
    /\ Len(m_deviceAdditionListeners) < MaxListeners
    /\ m_deviceAdditionListeners' = Append(m_deviceAdditionListeners, listener)
    /\ notified' = NotifyExistingDevices(listener, m_devices)
    /\ call' = [op |-> "RegisterDeviceAdditionListener", listener |-> listener]
    /\ ret' = "void"
    /\ invoked' = <<>>
    /\ old' = Snapshot
    /\ UNCHANGED <<m_handlers, m_devices, promiscCb, m_neighborList,
                   m_attendingList, round, fault>>

\* The loop of Node::UnregisterDeviceAdditionListener from position i on:
\* the first listener equal to the given one is erased, then break.
RECURSIVE UnregisterListenerLoop(_, _, _)
UnregisterListenerLoop(ls, i, listener) ==
    IF i > Len(ls) THEN ls
    ELSE IF ls[i] = listener THEN Erase(ls, i)
    ELSE UnregisterListenerLoop(ls, i + 1, listener)

\* Node::UnregisterDeviceAdditionListener.
UnregisterDeviceAdditionListener(listener) ==
    /\ ~fault
    /\ m_deviceAdditionListeners'
          = UnregisterListenerLoop(m_deviceAdditionListeners, 1, listener)
    /\ notified' = <<>>
    /\ call' = [op |-> "UnregisterDeviceAdditionListener",
                listener |-> listener]
    /\ ret' = "void"
    /\ invoked' = <<>>
    /\ old' = Snapshot
    /\ UNCHANGED <<m_handlers, m_devices, promiscCb, m_neighborList,
                   m_attendingList, round, fault>>

NextDevices ==
    \/ \E device \in Devices : AddDevice(device)
    \/ \E listener \in Listeners : RegisterDeviceAdditionListener(listener)
    \/ \E listener \in Listeners : UnregisterDeviceAdditionListener(listener)

SpecDevices == Init /\ [][NextDevices]_vars

\* ============================================================ handlers
\* Variant of PromiscTargets that sets the callback on every device of the
\* node also when a device is named.
PromiscTargetsEveryDevice(devices, device, promiscuous) ==
    IF promiscuous
    THEN IF device = NoDevice THEN Range(devices)
         ELSE Range(devices) \cup {device}
    ELSE {}

\* The devices on which RegisterProtocolHandler sets the promiscuous
\* receive callback.
PromiscTargets(devices, device, promiscuous) ==
    IF promiscuous
    THEN IF device = NoDevice THEN Range(devices) ELSE {device}
    ELSE {}

\* Node::RegisterProtocolHandler.
RegisterProtocolHandler(handler, protocolType, device, promiscuous) ==
    /\ ~fault
    /\ Len(m_handlers) < MaxHandlers
    /\ promiscCb' = promiscCb \cup PromiscTargets(m_devices, device, promiscuous)
    /\ m_handlers' = Append(m_handlers,
                            [handler |-> handler, device |-> device,
                             protocol |-> protocolType,
                             promiscuous |-> promiscuous])
    /\ call' = [op |-> "RegisterProtocolHandler", handler |-> handler,
                protocol |-> protocolType, device |-> device,
                promiscuous |-> promiscuous]
    /\ ret' = "void"
    /\ invoked' = <<>>
    /\ notified' = <<>>
    /\ old' = Snapshot
    /\ UNCHANGED <<m_devices, m_deviceAdditionListeners,
                   m_neighborList, m_attendingList, round, fault>>

\* Variant of UnregisterHandlerLoop without the break: every entry of the
\* handler from position i on is erased.
UnregisterHandlerLoopAll(hs, i, handler) ==
    SubSeq(hs, 1, i - 1)
        \o SelectSeq(SubSeq(hs, i, Len(hs)), LAMBDA e : e.handler # handler)

\* The loop of Node::UnregisterProtocolHandler from position i on: the
\* first entry whose handler IsEqual is erased, then break.
RECURSIVE UnregisterHandlerLoop(_, _, _)
UnregisterHandlerLoop(hs, i, handler) ==
    IF i > Len(hs) THEN hs
    ELSE IF hs[i].handler = handler THEN Erase(hs, i)
    ELSE UnregisterHandlerLoop(hs, i + 1, handler)

\* Node::UnregisterProtocolHandler.
UnregisterProtocolHandler(handler) ==
    /\ ~fault
    /\ m_handlers' = UnregisterHandlerLoop(m_handlers, 1, handler)
    /\ call' = [op |-> "UnregisterProtocolHandler", handler |-> handler]
    /\ ret' = "void"
    /\ invoked' = <<>>
    /\ notified' = <<>>
    /\ old' = Snapshot
    /\ UNCHANGED <<m_devices, promiscCb, m_deviceAdditionListeners,
                   m_neighborList, m_attendingList, round, fault>>

\* The three nested conditions of the loop body of Node::ReceiveFromDevice.
EntryMatches(e, device, protocol, promiscuous) ==
    /\ (e.device = NoDevice \/ (e.device # NoDevice /\ e.device = device))
    /\ (e.protocol = 0 \/ e.protocol = protocol)
    /\ promiscuous = e.promiscuous

\* The loop of Node::ReceiveFromDevice from position i on; acc holds the
\* handler invocations made so far and the local variable found.
RECURSIVE ReceiveLoop(_, _, _, _, _, _, _, _)
ReceiveLoop(hs, i, device, protocol, to, packetType, promiscuous, acc) ==
    IF i > Len(hs) THEN acc
    ELSE IF EntryMatches(hs[i], device, protocol, promiscuous)
    THEN ReceiveLoop(hs, i + 1, device, protocol, to, packetType, promiscuous,
                     [invoked |-> Append(acc.invoked,
                                         [entry |-> i,
                                          handler |-> hs[i].handler,
                                          device |-> device,
                                          protocol |-> protocol,
                                          to |-> to,
                                          packetType |-> packetType]),
                      found |-> TRUE])
    ELSE ReceiveLoop(hs, i + 1, device, protocol, to, packetType, promiscuous,
                     acc)

\* Variant of Dispatch that returns at the first matching entry.
DispatchFirstMatchOnly(hs, device, protocol, to, packetType, promiscuous) ==
    LET r == ReceiveLoop(hs, 1, device, protocol, to, packetType, promiscuous,
                         [invoked |-> <<>>, found |-> FALSE])
    IN  IF r.invoked = <<>> THEN r
        ELSE [invoked |-> <<r.invoked[1]>>, found |-> TRUE]

\* Variant of Dispatch whose found is the outcome of the test on the last
\* entry ("found = matched" in place of "found = true").
DispatchFoundOfLastEntry(hs, device, protocol, to, packetType, promiscuous) ==
    LET r == ReceiveLoop(hs, 1, device, protocol, to, packetType, promiscuous,
                         [invoked |-> <<>>, found |-> FALSE])
    IN  [invoked |-> r.invoked,
         found |-> /\ hs # <<>>
                   /\ EntryMatches(hs[Len(hs)], device, protocol, promiscuous)]

\* The body of Node::ReceiveFromDevice after its context assertion: the
\* invocations it makes and the value it returns.
Dispatch(hs, device, protocol, to, packetType, promiscuous) ==
    ReceiveLoop(hs, 1, device, protocol, to, packetType, promiscuous,
                [invoked |-> <<>>, found |-> FALSE])

\* Node::ReceiveFromDevice.  NS_ASSERT_MSG aborts in a build with assertions
\* when the context is not the node's id and is compiled out otherwise.
ReceiveFromDevice(op, device, protocol, to, packetType, promiscuous, context) ==
    /\ ~fault
    /\ call' = [op |-> op, device |-> device, protocol |-> protocol,
                to |-> to, packetType |-> packetType,
                promiscuous |-> promiscuous, context |-> context]
    /\ \/ /\ context # GetId
          /\ fault' = TRUE
          /\ invoked' = <<>>
          /\ ret' = "abort"
       \/ LET r == Dispatch(m_handlers, device, protocol, to, packetType,
                            promiscuous)
          IN  /\ invoked' = r.invoked
              /\ ret' = r.found
              /\ fault' = FALSE
    /\ notified' = <<>>
    /\ old' = Snapshot
    /\ UNCHANGED <<m_handlers, m_devices, promiscCb, m_deviceAdditionListeners,
                   m_neighborList, m_attendingList, round>>

\* Variant of NonPromiscReceiveFromDevice that passes true for the mode flag.
NonPromiscReceiveAsPromisc(device, protocol, context) ==
    /\ device \in Range(m_devices)
    /\ ReceiveFromDevice("NonPromiscReceiveFromDevice", device, protocol,
                         GetAddress(device), 0, TRUE, context)

\* Node::NonPromiscReceiveFromDevice: the receive callback AddDevice sets on
\* the device.
NonPromiscReceiveFromDevice(device, protocol, context) ==
    /\ device \in Range(m_devices)
    /\ ReceiveFromDevice("NonPromiscReceiveFromDevice", device, protocol,
                         GetAddress(device), 0, FALSE, context)

\* Node::PromiscReceiveFromDevice: the promiscuous receive callback
\* RegisterProtocolHandler sets on a device.
PromiscReceiveFromDevice(device, protocol, to, packetType, context) ==
    /\ device \in promiscCb
    /\ ReceiveFromDevice("PromiscReceiveFromDevice", device, protocol,
                         to, packetType, TRUE, context)

\* The position of the first entry of hs with the handler, or 0.
HandlerPosition(hs, handler) ==
    IF \E k \in 1..Len(hs) : hs[k].handler = handler
    THEN CHOOSE k \in 1..Len(hs) :
            /\ hs[k].handler = handler
            /\ \A j \in 1..(k - 1) : hs[j].handler # handler
    ELSE 0

\* The loop of Node::ReceiveFromDevice from position i on when the handler
\* who, the first time it is invoked, calls UnregisterProtocolHandler
\* (target), as a build with raw-pointer iterators runs it: after the erase
\* the iterator i designates the same slot of the vector.  ids gives for
\* each entry of hs its position when the dispatch started; acc.stale tells
\* that the erase was at or before the position of i, which invalidates i,
\* and acc.upTo how many invocations were made by then.
RECURSIVE ReentrantLoop(_, _, _, _, _, _, _, _, _, _, _, _)
ReentrantLoop(hs, ids, i, device, protocol, to, packetType, promiscuous, who, target, fired, acc) ==
    IF i > Len(hs)
    THEN [hs |-> hs, invoked |-> acc.invoked, found |-> acc.found,
          stale |-> acc.stale, upTo |-> acc.upTo, past |-> i > Len(hs) + 1]
    ELSE IF EntryMatches(hs[i], device, protocol, promiscuous)
    THEN LET inv == Append(acc.invoked,
                           [entry |-> ids[i], handler |-> hs[i].handler,
                            device |-> device, protocol |-> protocol,
                            to |-> to, packetType |-> packetType])
             calls == hs[i].handler = who /\ ~fired
             at == IF calls THEN HandlerPosition(hs, target) ELSE 0
             hs2 == IF calls THEN UnregisterHandlerLoop(hs, 1, target) ELSE hs
             ids2 == IF at > 0 THEN Erase(ids, at) ELSE ids
             stale2 == acc.stale \/ (at > 0 /\ at <= i)
         IN  ReentrantLoop(hs2, ids2, i + 1, device, protocol, to, packetType,
                           promiscuous, who, target, fired \/ calls,
                           [invoked |-> inv, found |-> TRUE, stale |-> stale2,
                            upTo |-> IF ~acc.stale /\ stale2 THEN Len(inv)
                                     ELSE acc.upTo])
    ELSE ReentrantLoop(hs, ids, i + 1, device, protocol, to, packetType,
                       promiscuous, who, target, fired, acc)

\* Node::NonPromiscReceiveFromDevice, entered in the node's context, with a
\* handler who that calls UnregisterProtocolHandler (target) when invoked.
\* An erase after the position of i leaves i valid.  An erase at or before
\* it invalidates i, and going on with i is undefined: a build with
\* raw-pointer iterators goes on from the same slot, and when i has passed
\* end () it reads past the last entry, where it aborts or finds nothing to
\* invoke; a build with checked iterators aborts at the next use of i.
NonPromiscReceiveReentrant(device, protocol, who, target) ==
    /\ ~fault
    /\ device \in Range(m_devices)
    /\ call' = [op |-> "NonPromiscReceiveReentrant", device |-> device,
                protocol |-> protocol, who |-> who, target |-> target]
    /\ LET r == ReentrantLoop(m_handlers, [k \in 1..Len(m_handlers) |-> k],
                              1, device, protocol, GetAddress(device), 0,
                              FALSE, who, target, FALSE,
                              [invoked |-> <<>>, found |-> FALSE,
                               stale |-> FALSE, upTo |-> 0])
       IN  /\ m_handlers' = r.hs
           /\ \/ /\ ~r.past
                 /\ invoked' = r.invoked
                 /\ ret' = r.found
                 /\ fault' = FALSE
              \/ /\ r.past
                 /\ invoked' = r.invoked
                 /\ \/ ret' = "abort" /\ fault' = TRUE
                    \/ ret' = r.found /\ fault' = FALSE
              \/ /\ r.stale
                 /\ invoked' = SubSeq(r.invoked, 1, r.upTo)
                 /\ ret' = "abort"
                 /\ fault' = TRUE
    /\ notified' = <<>>
    /\ old' = Snapshot
    /\ UNCHANGED <<m_devices, promiscCb, m_deviceAdditionListeners,
                   m_neighborList, m_attendingList, round>>

\* Dispatches whose handlers unregister handlers.
NextReentrant ==
    \/ AddDevice("dev1")
    \/ \E h \in Handlers, p \in ProtocolFilters :
          RegisterProtocolHandler(h, p, NoDevice, FALSE)
    \/ \E h \in Handlers : UnregisterProtocolHandler(h)
    \/ \E p \in FrameProtocols, who \in Handlers, target \in Handlers :
          NonPromiscReceiveReentrant("dev1", p, who, target)

SpecReentrant == Init /\ [][NextReentrant]_vars

NextHandlers ==
    \/ \E d \in Devices : AddDevice(d)
    \/ \E h \in Handlers, p \in ProtocolFilters, d \in HandlerDevices,
          m \in BOOLEAN : RegisterProtocolHandler(h, p, d, m)
    \/ \E h \in Handlers : UnregisterProtocolHandler(h)
    \/ \E d \in Devices, p \in FrameProtocols, c \in Contexts :
          NonPromiscReceiveFromDevice(d, p, c)
    \/ \E d \in Devices, p \in FrameProtocols, t \in ToAddresses,
          k \in PacketTypes, c \in Contexts :
          PromiscReceiveFromDevice(d, p, t, k, c)

SpecHandlers == Init /\ [][NextHandlers]_vars

\* ============================================================ neighbors
NeighborUnchanged == UNCHANGED <<m_handlers, m_devices, promiscCb,
                                 m_deviceAdditionListeners, m_attendingList>>

\* Variant of RegisterNeighborList that appends the record twice.
RegisterNeighborListTwice(nl, ip, competence, interests, trust) ==
    LET neighbor == [ip |-> ip, competence |-> competence,
                     interests |-> interests, trust |-> trust,
                     around |-> TRUE]
    IN  nl \o <<neighbor, neighbor>>

\* Variant of RegisterNeighborList that appends the record with
\* around = false.
RegisterNeighborListOff(nl, ip, competence, interests, trust) ==
    Append(nl, [ip |-> ip, competence |-> competence, interests |-> interests,
                trust |-> trust, around |-> FALSE])

\* Node::RegisterNeighbor: the record is appended with around = true.
RegisterNeighborList(nl, ip, competence, interests, trust) ==
    Append(nl, [ip |-> ip, competence |-> competence, interests |-> interests,
                trust |-> trust, around |-> TRUE])

RegisterNeighbor(ip, competence, interests, trust) ==
    /\ ~fault
    /\ Len(m_neighborList) < MaxNeighbors
    /\ m_neighborList' = RegisterNeighborList(m_neighborList, ip, competence,
                                              interests, trust)
    /\ call' = [op |-> "RegisterNeighbor", ip |-> ip,
                competence |-> competence, interests |-> interests,
                trust |-> trust]
    /\ ret' = "void"
    /\ invoked' = <<>>
    /\ notified' = <<>>
    /\ old' = Snapshot
    /\ round' = IF round.marked
                THEN [open |-> FALSE, confirmed |-> {}, marked |-> TRUE,
                      live |-> round.live \cup {Len(m_neighborList) + 1}]
                ELSE NoRound
    /\ fault' = FALSE
    /\ NeighborUnchanged

\* The loop of Node::GetNeighborIpList from position i on.
RECURSIVE NeighborIpLoop(_, _, _)
NeighborIpLoop(nl, i, acc) ==
    IF i > Len(nl) THEN acc
    ELSE NeighborIpLoop(nl, i + 1, Append(acc, nl[i].ip))

\* Node::GetNeighborIpList.
GetNeighborIpList ==
    /\ ~fault
    /\ call' = [op |-> "GetNeighborIpList"]
    /\ ret' = NeighborIpLoop(m_neighborList, 1, <<>>)
    /\ invoked' = <<>>
    /\ notified' = <<>>
    /\ old' = Snapshot
    /\ UNCHANGED <<m_neighborList, round, fault>>
    /\ NeighborUnchanged

\* Variant of TurnOffLiveList whose loop stops one record early.
TurnOffLiveListButLast(nl) ==
    [k \in 1..Len(nl) |->
        IF k < Len(nl) THEN [nl[k] EXCEPT !.around = FALSE] ELSE nl[k]]

\* Node::TurnOffLiveNeighbors: around = false on every record.
TurnOffLiveList(nl) == [k \in 1..Len(nl) |-> [nl[k] EXCEPT !.around = FALSE]]

TurnOffLiveNeighbors ==
    /\ ~fault
    /\ m_neighborList' = TurnOffLiveList(m_neighborList)
    /\ call' = [op |-> "TurnOffLiveNeighbors"]
    /\ ret' = "void"
    /\ invoked' = <<>>
    /\ notified' = <<>>
    /\ old' = Snapshot
    /\ round' = [open |-> TRUE, confirmed |-> {}, marked |-> TRUE,
                 live |-> {}]
    /\ fault' = FALSE
    /\ NeighborUnchanged

\* The loop of Node::IsAlreadyNeighbor from position i on.
RECURSIVE AlreadyLoop(_, _, _)
AlreadyLoop(nl, i, ip) ==
    IF i > Len(nl) THEN FALSE
    ELSE IF nl[i].ip = ip THEN TRUE
    ELSE AlreadyLoop(nl, i + 1, ip)

IsAlreadyNeighborOf(nl, ip) == AlreadyLoop(nl, 1, ip)

\* Node::IsAlreadyNeighbor.
IsAlreadyNeighbor(ip) ==
    /\ ~fault
    /\ call' = [op |-> "IsAlreadyNeighbor", ip |-> ip]
    /\ ret' = IsAlreadyNeighborOf(m_neighborList, ip)
    /\ invoked' = <<>>
    /\ notified' = <<>>
    /\ old' = Snapshot
    /\ UNCHANGED <<m_neighborList, round, fault>>
    /\ NeighborUnchanged

\* The position at which a "for (i = begin; i != end; i++) if (i->ip == ip)
\* break;" loop started at position i stops: that of the first record with
\* the address, or Len + 1 (end()) when there is none.
RECURSIVE FindIp(_, _, _)
FindIp(l, i, ip) ==
    IF i > Len(l) THEN i
    ELSE IF l[i].ip = ip THEN i
    ELSE FindIp(l, i + 1, ip)

\* Variant of UnregisterNeighborList without the break: every record with
\* the address is erased.
UnregisterNeighborListAll(nl, ip) == SelectSeq(nl, LAMBDA r : r.ip # ip)

\* Node::UnregisterNeighbor: behind the IsAlreadyNeighbor check, the first
\* record with the address is erased, then break.
UnregisterNeighborList(nl, ip) ==
    IF IsAlreadyNeighborOf(nl, ip)
    THEN LET i == FindIp(nl, 1, ip)
         IN  IF i <= Len(nl) THEN Erase(nl, i) ELSE nl
    ELSE nl

\* Variant of UnregisterNeighbor that also erases the attending calls of
\* the address.
UnregisterNeighborAndClose(ip) ==
    /\ ~fault
    /\ m_neighborList' = UnregisterNeighborList(m_neighborList, ip)
    /\ m_attendingList' = SelectSeq(m_attendingList, LAMBDA r : r.ip # ip)
    /\ call' = [op |-> "UnregisterNeighbor", ip |-> ip]
    /\ ret' = "void"
    /\ invoked' = <<>>
    /\ notified' = <<>>
    /\ old' = Snapshot
    /\ round' = NoRound
    /\ fault' = FALSE
    /\ UNCHANGED <<m_handlers, m_devices, promiscCb,
                   m_deviceAdditionListeners>>

UnregisterNeighbor(ip) ==
    /\ ~fault
    /\ m_neighborList' = UnregisterNeighborList(m_neighborList, ip)
    /\ call' = [op |-> "UnregisterNeighbor", ip |-> ip]
    /\ ret' = "void"
    /\ invoked' = <<>>
    /\ notified' = <<>>
    /\ old' = Snapshot
    /\ round' = NoRound
    /\ fault' = FALSE
    /\ NeighborUnchanged

\* The loop of Node::UnregisterOffNeighbors from position i on, as a build
\* with raw-pointer iterators runs it: after erase (i) the iterator i, which
\* the code does not reassign, designates the record that followed.
RECURSIVE UnregisterOffLoop(_, _)
UnregisterOffLoop(nl, i) ==
    IF i > Len(nl) THEN nl
    ELSE IF nl[i].around = FALSE THEN UnregisterOffLoop(Erase(nl, i), i)
    ELSE UnregisterOffLoop(nl, i + 1)

\* The position of the first record with around = false, or Len + 1.
RECURSIVE FirstOff(_, _)
FirstOff(nl, i) ==
    IF i > Len(nl) THEN i
    ELSE IF nl[i].around = FALSE THEN i
    ELSE FirstOff(nl, i + 1)

\* Node::UnregisterOffNeighbors.  m_neighborList.erase (i) invalidates i and
\* its result is dropped; the loop goes on using i, which is undefined: a
\* build with raw-pointer iterators completes the loop, a build with checked
\* iterators aborts at the first use of i after the first erase.
UnregisterOffNeighbors ==
    /\ ~fault
    /\ call' = [op |-> "UnregisterOffNeighbors", round |-> round]
    /\ \/ /\ m_neighborList' = UnregisterOffLoop(m_neighborList, 1)
          /\ ret' = "void"
          /\ fault' = FALSE
       \/ /\ FirstOff(m_neighborList, 1) <= Len(m_neighborList)
          /\ m_neighborList' = Erase(m_neighborList,
                                     FirstOff(m_neighborList, 1))
          /\ ret' = "abort"
          /\ fault' = TRUE
    /\ invoked' = <<>>
    /\ notified' = <<>>
    /\ old' = Snapshot
    /\ round' = NoRound
    /\ NeighborUnchanged

\* Variant of TurnNeighborOnList without the break: around = true on every
\* record with the address.
TurnNeighborOnListAll(nl, ip) ==
    [k \in 1..Len(nl) |->
        IF nl[k].ip = ip THEN [nl[k] EXCEPT !.around = TRUE] ELSE nl[k]]

\* Variant of TurnNeighborOnList that appends a record when the address has
\* none.
TurnNeighborOnListOrCreate(nl, ip) ==
    LET i == FindIp(nl, 1, ip)
    IN  IF i <= Len(nl) THEN [nl EXCEPT ![i].around = TRUE]
        ELSE Append(nl, [ip |-> ip, competence |-> "doctor",
                         interests |-> <<"vitals">>, trust |-> 0,
                         around |-> TRUE])

\* Node::TurnNeighborOn: around = true on the first record with the
\* address, then break.
TurnNeighborOnList(nl, ip) ==
    LET i == FindIp(nl, 1, ip)
    IN  IF i <= Len(nl) THEN [nl EXCEPT ![i].around = TRUE] ELSE nl

TurnNeighborOn(ip) ==
    /\ ~fault
    /\ m_neighborList' = TurnNeighborOnList(m_neighborList, ip)
    /\ call' = [op |-> "TurnNeighborOn", ip |-> ip]
    /\ ret' = "void"
    /\ invoked' = <<>>
    /\ notified' = <<>>
    /\ old' = Snapshot
    /\ round' = [round EXCEPT
                    !.confirmed = IF round.open THEN @ \cup {ip} ELSE @,
                    !.live = IF /\ round.marked
                                /\ FindIp(m_neighborList, 1, ip)
                                      <= Len(m_neighborList)
                             THEN @ \cup {FindIp(m_neighborList, 1, ip)}
                             ELSE @]
    /\ fault' = FALSE
    /\ NeighborUnchanged

\* Node::IsThereAnyNeighbor.
IsThereAnyNeighborOf(nl) == ~(nl = <<>>)

IsThereAnyNeighbor ==
    /\ ~fault
    /\ call' = [op |-> "IsThereAnyNeighbor"]
    /\ ret' = IsThereAnyNeighborOf(m_neighborList)
    /\ invoked' = <<>>
    /\ notified' = <<>>
    /\ old' = Snapshot
    /\ UNCHANGED <<m_neighborList, round, fault>>
    /\ NeighborUnchanged

\* Node::IsAliveNeighbor on a directory that holds the address: the around
\* flag of the record the search loop stops at.
IsAliveNeighborOf(nl, ip) == nl[FindIp(nl, 1, ip)].around

\* Node::IsAliveNeighbor.  With no record for the address the loop ends at
\* end() and i->around reads past the last record, which is undefined: the
\* call aborts or returns whatever the memory holds.
IsAliveNeighbor(ip) ==
    /\ ~fault
    /\ call' = [op |-> "IsAliveNeighbor", ip |-> ip]
    /\ IF FindIp(m_neighborList, 1, ip) <= Len(m_neighborList)
       THEN /\ ret' = IsAliveNeighborOf(m_neighborList, ip)
            /\ fault' = FALSE
       ELSE \/ /\ ret' = "abort"
               /\ fault' = TRUE
            \/ /\ ret' \in BOOLEAN
               /\ fault' = FALSE
    /\ invoked' = <<>>
    /\ notified' = <<>>
    /\ old' = Snapshot
    /\ UNCHANGED <<m_neighborList, round>>
    /\ NeighborUnchanged

\* Node::GetNeighborTrust on a list that holds the address: the trust
\* field of the record the search loop stops at.
GetNeighborTrustOf(nl, ip) == nl[FindIp(nl, 1, ip)].trust

\* Node::GetNeighborTrust.  With no record for the address the loop ends at
\* end() and i->trust reads past the last record, which is
\* undefined: the call aborts or returns whatever the memory holds.
GetNeighborTrust(ip) ==
    /\ ~fault
    /\ call' = [op |-> "GetNeighborTrust", ip |-> ip]
    /\ IF FindIp(m_neighborList, 1, ip) <= Len(m_neighborList)
       THEN /\ ret' = GetNeighborTrustOf(m_neighborList, ip)
            /\ fault' = FALSE
       ELSE \/ /\ ret' = "abort"
               /\ fault' = TRUE
            \/ /\ ret' \in Trusts
               /\ fault' = FALSE
    /\ invoked' = <<>>
    /\ notified' = <<>>
    /\ old' = Snapshot
    /\ UNCHANGED <<m_neighborList, round>>
    /\ NeighborUnchanged

\* Node::GetNeighborCompetence on a list that holds the address: the competence
\* field of the record the search loop stops at.
GetNeighborCompetenceOf(nl, ip) == nl[FindIp(nl, 1, ip)].competence

\* Node::GetNeighborCompetence.  With no record for the address the loop ends at
\* end() and i->competence reads past the last record, which is
\* undefined: the call aborts or returns whatever the memory holds.
GetNeighborCompetence(ip) ==
    /\ ~fault
    /\ call' = [op |-> "GetNeighborCompetence", ip |-> ip]
    /\ IF FindIp(m_neighborList, 1, ip) <= Len(m_neighborList)
       THEN /\ ret' = GetNeighborCompetenceOf(m_neighborList, ip)
            /\ fault' = FALSE
       ELSE \/ /\ ret' = "abort"
               /\ fault' = TRUE
            \/ /\ ret' \in Competences
               /\ fault' = FALSE
    /\ invoked' = <<>>
    /\ notified' = <<>>
    /\ old' = Snapshot
    /\ UNCHANGED <<m_neighborList, round>>
    /\ NeighborUnchanged

\* Node::GetNeighborInterests on a list that holds the address: the interests
\* field of the record the search loop stops at.
GetNeighborInterestsOf(nl, ip) == nl[FindIp(nl, 1, ip)].interests

\* Node::GetNeighborInterests.  With no record for the address the loop ends at
\* end() and i->interests reads past the last record, which is
\* undefined: the call aborts or returns whatever the memory holds.
GetNeighborInterests(ip) ==
    /\ ~fault
    /\ call' = [op |-> "GetNeighborInterests", ip |-> ip]
    /\ IF FindIp(m_neighborList, 1, ip) <= Len(m_neighborList)
       THEN /\ ret' = GetNeighborInterestsOf(m_neighborList, ip)
            /\ fault' = FALSE
       ELSE \/ /\ ret' = "abort"
               /\ fault' = TRUE
            \/ /\ ret' \in InterestLists
               /\ fault' = FALSE
    /\ invoked' = <<>>
    /\ notified' = <<>>
    /\ old' = Snapshot
    /\ UNCHANGED <<m_neighborList, round>>
    /\ NeighborUnchanged

\* Node::GetNNeighbors.
GetNNeighborsOf(nl) == Len(nl)

GetNNeighbors ==
    /\ ~fault
    /\ call' = [op |-> "GetNNeighbors"]
    /\ ret' = GetNNeighborsOf(m_neighborList)
    /\ invoked' = <<>>
    /\ notified' = <<>>
    /\ old' = Snapshot
    /\ UNCHANGED <<m_neighborList, round, fault>>
    /\ NeighborUnchanged

\* The width of the uint8_t loop counter of Node::GetPlusTrustNeighbor.
Uint8Values == 256

\* Variant of TrustLoop that compares with >= in place of >.
RECURSIVE TrustLoopOrEqual(_, _, _, _)
TrustLoopOrEqual(nl, j, competence, acc) ==
    IF j > Len(nl) THEN acc
    ELSE IF nl[j].competence = competence /\ nl[j].trust >= acc.trust
    THEN TrustLoopOrEqual(nl, j + 1, competence,
                          [trust |-> nl[j].trust, n |-> j, gotTrust |-> TRUE])
    ELSE TrustLoopOrEqual(nl, j + 1, competence, acc)

\* The inner loop of Node::GetPlusTrustNeighbor from position j on, for one
\* competence label; acc holds the locals trust, n and gotTrust.
RECURSIVE TrustLoop(_, _, _, _)
TrustLoop(nl, j, competence, acc) ==
    IF j > Len(nl) THEN acc
    ELSE IF nl[j].competence = competence /\ nl[j].trust > acc.trust
    THEN TrustLoop(nl, j + 1, competence,
                   [trust |-> nl[j].trust, n |-> j, gotTrust |-> TRUE])
    ELSE TrustLoop(nl, j + 1, competence, acc)

\* The outer loop of Node::GetPlusTrustNeighbor from counter value i on (i
\* counts from 0 and wraps at 256).  It ends "found" at the break, "none"
\* when i reaches competences.size () with n never assigned, and "diverge"
\* when the counter wraps to 0 with nothing found: the scan then repeats
\* unchanged, for ever.  The inner loop leaves the locals as they are until
\* it finds a record, and the outer loop stops there, so every pass of the
\* inner loop starts from acc; the loop is written over the counter values
\* it goes through, not by recursion, which a list of 256 labels makes too
\* deep to evaluate.
CompetenceLoop(nl, competences, i, acc) ==
    LET wraps == Len(competences) >= Uint8Values
        last == IF wraps THEN Uint8Values - 1 ELSE Len(competences) - 1
        hits == {j \in i..last :
                    TrustLoop(nl, 1, competences[j + 1], acc).gotTrust}
    IN  IF hits # {}
        THEN LET j == CHOOSE h \in hits : \A g \in hits : h <= g
             IN  [kind |-> "found",
                  n |-> TrustLoop(nl, 1, competences[j + 1], acc).n]
        ELSE IF wraps THEN [kind |-> "diverge", n |-> 0]
        ELSE [kind |-> "none", n |-> 0]

\* Variant of PlusTrust without "if (gotTrust) break;": every label is
\* scanned and the locals carry over from one label to the next.
RECURSIVE CompetenceLoopNoBreak(_, _, _, _)
CompetenceLoopNoBreak(nl, competences, i, acc) ==
    IF i = Len(competences)
    THEN [kind |-> IF acc.gotTrust THEN "found" ELSE "none", n |-> acc.n]
    ELSE CompetenceLoopNoBreak(nl, competences, i + 1,
                               TrustLoop(nl, 1, competences[i + 1], acc))

PlusTrustNoBreak(nl, competences) ==
    CompetenceLoopNoBreak(nl, competences, 0,
                          [trust |-> 0, n |-> 0, gotTrust |-> FALSE])

\* The two loops of Node::GetPlusTrustNeighbor, from trust = 0.0 and
\* gotTrust = false.
PlusTrust(nl, competences) ==
    CompetenceLoop(nl, competences, 0,
                   [trust |-> 0, n |-> 0, gotTrust |-> FALSE])

\* Node::GetPlusTrustNeighbor.  When no label qualifies, n->ip is read
\* through an iterator that was never assigned, which is undefined: the call
\* aborts or returns whatever the memory holds.  A scan that diverges never
\* returns.
GetPlusTrustNeighbor(competences) ==
    /\ ~fault
    /\ call' = [op |-> "GetPlusTrustNeighbor", competences |-> competences]
    /\ LET r == PlusTrust(m_neighborList, competences)
       IN  CASE r.kind = "found" ->
                  /\ ret' = m_neighborList[r.n].ip
                  /\ fault' = FALSE
             [] r.kind = "none" ->
                  \/ /\ ret' = "abort"
                     /\ fault' = TRUE
                  \/ /\ ret' \in Addresses \cup {GarbageAddress}
                     /\ fault' = FALSE
             [] r.kind = "diverge" ->
                  /\ ret' = "never"
                  /\ fault' = TRUE
    /\ invoked' = <<>>
    /\ notified' = <<>>
    /\ old' = Snapshot
    /\ UNCHANGED <<m_neighborList, round>>
    /\ NeighborUnchanged

\* The competence lists a caller passes, in priority order.
RECURSIVE SeqsUpTo(_, _)
SeqsUpTo(S, n) ==
    IF n = 0 THEN {<<>>}
    ELSE LET shorter == SeqsUpTo(S, n - 1)
         IN  shorter \cup {Append(q, x) : q \in shorter, x \in S}

CompetenceLists == SeqsUpTo(Competences, MaxCompetences)

NextNeighbors ==
    \/ \E ip \in Addresses, c \in Competences, il \in InterestLists,
          t \in Trusts : RegisterNeighbor(ip, c, il, t)
    \/ GetNeighborIpList
    \/ TurnOffLiveNeighbors
    \/ \E ip \in Addresses : IsAlreadyNeighbor(ip)
    \/ \E ip \in Addresses : UnregisterNeighbor(ip)
    \/ UnregisterOffNeighbors
    \/ \E ip \in Addresses : TurnNeighborOn(ip)
    \/ IsThereAnyNeighbor
    \/ \E ip \in Addresses : IsAliveNeighbor(ip)
    \/ \E cl \in CompetenceLists : GetPlusTrustNeighbor(cl)

SpecNeighbors == Init /\ [][NextNeighbors]_vars

\* ============================================================ attending
AttendingUnchanged == UNCHANGED <<m_handlers, m_devices, promiscCb,
                                  m_deviceAdditionListeners, m_neighborList,
                                  round>>

\* Variant of RegisterAttendingList that appends the record twice.
RegisterAttendingListTwice(al, ip, criticalData, priority, attendingCallTime) ==
    LET attending == [ip |-> ip, criticalData |-> criticalData,
                      attendingPriority |-> priority,
                      attendingTime |-> attendingCallTime]
    IN  al \o <<attending, attending>>

\* Variant of RegisterAttendingList that keeps the list ordered by priority:
\* the record goes before the first record of lower priority.
RegisterAttendingListByPriority(al, ip, criticalData, priority, attendingCallTime) ==
    LET attending == [ip |-> ip, criticalData |-> criticalData,
                      attendingPriority |-> priority,
                      attendingTime |-> attendingCallTime]
        lower == {k \in 1..Len(al) : al[k].attendingPriority < priority}
        at == IF lower = {} THEN Len(al) + 1
              ELSE CHOOSE k \in lower : \A j \in lower : k <= j
    IN  SubSeq(al, 1, at - 1) \o <<attending>> \o SubSeq(al, at, Len(al))

\* Node::RegisterAttendingCall: the record is appended.
RegisterAttendingList(al, ip, criticalData, priority, attendingCallTime) ==
    Append(al, [ip |-> ip, criticalData |-> criticalData,
                attendingPriority |-> priority,
                attendingTime |-> attendingCallTime])

RegisterAttendingCall(ip, criticalData, priority, attendingCallTime) ==
    /\ ~fault
    /\ Len(m_attendingList) < MaxAttending
    /\ m_attendingList' = RegisterAttendingList(m_attendingList, ip,
                              criticalData, priority, attendingCallTime)
    /\ call' = [op |-> "RegisterAttendingCall", ip |-> ip,
                criticalData |-> criticalData, priority |-> priority,
                attendingCallTime |-> attendingCallTime]
    /\ ret' = "void"
    /\ invoked' = <<>>
    /\ notified' = <<>>
    /\ old' = Snapshot
    /\ fault' = FALSE
    /\ AttendingUnchanged

\* Node::GetNPendingAttending.
GetNPendingAttendingOf(al) == Len(al)

GetNPendingAttending ==
    /\ ~fault
    /\ call' = [op |-> "GetNPendingAttending"]
    /\ ret' = GetNPendingAttendingOf(m_attendingList)
    /\ invoked' = <<>>
    /\ notified' = <<>>
    /\ old' = Snapshot
    /\ UNCHANGED <<m_attendingList, fault>>
    /\ AttendingUnchanged

\* Variant of CloseAttendingList whose test is inverted (!= for ==): the
\* first record with another address is erased.
CloseAttendingListOther(al, ip) ==
    IF GetNPendingAttendingOf(al) # 0
    THEN LET others == {k \in 1..Len(al) : al[k].ip # ip}
         IN  IF others = {} THEN al
             ELSE Erase(al, CHOOSE k \in others : \A j \in others : k <= j)
    ELSE al

\* Variant of CloseAttendingList that erases the last record with the
\* address in place of the first.
CloseAttendingListLast(al, ip) ==
    IF GetNPendingAttendingOf(al) # 0
    THEN LET same == {k \in 1..Len(al) : al[k].ip = ip}
         IN  IF same = {} THEN al
             ELSE Erase(al, CHOOSE k \in same : \A j \in same : j <= k)
    ELSE al

\* Node::CloseAttending: when the list is not empty, the first record with
\* the address is erased, then break.
CloseAttendingList(al, ip) ==
    IF GetNPendingAttendingOf(al) # 0
    THEN LET i == FindIp(al, 1, ip)
         IN  IF i <= Len(al) THEN Erase(al, i) ELSE al
    ELSE al

CloseAttending(ip) ==
    /\ ~fault
    /\ m_attendingList' = CloseAttendingList(m_attendingList, ip)
    /\ call' = [op |-> "CloseAttending", ip |-> ip]
    /\ ret' = "void"
    /\ invoked' = <<>>
    /\ notified' = <<>>
    /\ old' = Snapshot
    /\ fault' = FALSE
    /\ AttendingUnchanged

\* The loop of Node::GetAttendingIpList from position i on.
RECURSIVE AttendingIpLoop(_, _, _)
AttendingIpLoop(al, i, acc) ==
    IF i > Len(al) THEN acc
    ELSE AttendingIpLoop(al, i + 1, Append(acc, al[i].ip))

\* Node::GetAttendingIpList.
GetAttendingIpList ==
    /\ ~fault
    /\ call' = [op |-> "GetAttendingIpList"]
    /\ ret' = AttendingIpLoop(m_attendingList, 1, <<>>)
    /\ invoked' = <<>>
    /\ notified' = <<>>
    /\ old' = Snapshot
    /\ UNCHANGED <<m_attendingList, fault>>
    /\ AttendingUnchanged

\* Node::GetAttendingCriticalData on a list that holds the address: the criticalData
\* field of the record the search loop stops at.
GetAttendingCriticalDataOf(al, ip) == al[FindIp(al, 1, ip)].criticalData

\* Node::GetAttendingCriticalData.  With no record for the address the loop ends at
\* end() and i->criticalData reads past the last record, which is
\* undefined: the call aborts or returns whatever the memory holds.
GetAttendingCriticalData(ip) ==
    /\ ~fault
    /\ call' = [op |-> "GetAttendingCriticalData", ip |-> ip]
    /\ IF FindIp(m_attendingList, 1, ip) <= Len(m_attendingList)
       THEN /\ ret' = GetAttendingCriticalDataOf(m_attendingList, ip)
            /\ fault' = FALSE
       ELSE \/ /\ ret' = "abort"
               /\ fault' = TRUE
            \/ /\ ret' \in CriticalDatas
               /\ fault' = FALSE
    /\ invoked' = <<>>
    /\ notified' = <<>>
    /\ old' = Snapshot
    /\ UNCHANGED <<m_attendingList>>
    /\ AttendingUnchanged

\* Node::GetAttendingPriority on a list that holds the address: the attendingPriority
\* field of the record the search loop stops at.
GetAttendingPriorityOf(al, ip) == al[FindIp(al, 1, ip)].attendingPriority

\* Node::GetAttendingPriority.  With no record for the address the loop ends at
\* end() and i->attendingPriority reads past the last record, which is
\* undefined: the call aborts or returns whatever the memory holds.
GetAttendingPriority(ip) ==
    /\ ~fault
    /\ call' = [op |-> "GetAttendingPriority", ip |-> ip]
    /\ IF FindIp(m_attendingList, 1, ip) <= Len(m_attendingList)
       THEN /\ ret' = GetAttendingPriorityOf(m_attendingList, ip)
            /\ fault' = FALSE
       ELSE \/ /\ ret' = "abort"
               /\ fault' = TRUE
            \/ /\ ret' \in Priorities
               /\ fault' = FALSE
    /\ invoked' = <<>>
    /\ notified' = <<>>
    /\ old' = Snapshot
    /\ UNCHANGED <<m_attendingList>>
    /\ AttendingUnchanged

NextAttending ==
    \/ \E ip \in Addresses, d \in CriticalDatas, p \in Priorities,
          t \in Times : RegisterAttendingCall(ip, d, p, t)
    \/ GetNPendingAttending
    \/ \E ip \in Addresses : CloseAttending(ip)
    \/ GetAttendingIpList

SpecAttending == Init /\ [][NextAttending]_vars

\* ============================================================ the node
\* Variant of DoDispose that clears the neighbor and attending lists too.
DoDisposeEveryList ==
    /\ ~fault
    /\ m_deviceAdditionListeners' = <<>>
    /\ m_handlers' = <<>>
    /\ m_devices' = <<>>
    /\ promiscCb' = {}
    /\ m_neighborList' = <<>>
    /\ m_attendingList' = <<>>
    /\ call' = [op |-> "DoDispose"]
    /\ ret' = "void"
    /\ invoked' = <<>>
    /\ notified' = <<>>
    /\ old' = Snapshot
    /\ UNCHANGED <<round, fault>>

\* Node::DoDispose: the listeners and the handlers are cleared, every device
\* is disposed and the device list is cleared; the neighbor and attending
\* lists are not touched.
DoDispose ==
    /\ ~fault
    /\ m_deviceAdditionListeners' = <<>>
    /\ m_handlers' = <<>>
    /\ m_devices' = <<>>
    /\ promiscCb' = {}
    /\ call' = [op |-> "DoDispose"]
    /\ ret' = "void"
    /\ invoked' = <<>>
    /\ notified' = <<>>
    /\ old' = Snapshot
    /\ UNCHANGED <<m_neighborList, m_attendingList, round, fault>>

\* The removals of the two address-keyed registries together: neighbors
\* that differ in address and trust, attending calls that differ in
\* address and critical data.
NextRemoval ==
    \/ \E ip \in Addresses, t \in Trusts :
          RegisterNeighbor(ip, "doctor", <<"vitals">>, t)
    \/ \E ip \in Addresses : UnregisterNeighbor(ip)
    \/ \E ip \in Addresses, d \in CriticalDatas :
          RegisterAttendingCall(ip, d, 0, 10)
    \/ \E ip \in Addresses : CloseAttending(ip)

SpecRemoval == Init /\ [][NextRemoval]_vars

\* The by-address operations and the address lists of the two registries
\* together.  A neighbor is a doctor of trust 4 or a nurse of trust 9, whose
\* interest lists hold the same labels in opposite orders; an attending call
\* has critical data InfoA with priority 1 or InfoB with priority 0.
MaxRecords == 3

LookupInterests(competence) ==
    IF competence = "doctor" THEN <<"vitals", "alerts">>
    ELSE <<"alerts", "vitals">>

LookupTrust(competence) == IF competence = "doctor" THEN 4 ELSE 9

LookupPriority(criticalData) == IF criticalData = "InfoA" THEN 1 ELSE 0

RecordsLeft == Len(m_neighborList) + Len(m_attendingList) < MaxRecords

NextLookup ==
    \/ \E ip \in Addresses, c \in Competences :
          /\ RecordsLeft
          /\ RegisterNeighbor(ip, c, LookupInterests(c), LookupTrust(c))
    \/ GetNeighborIpList
    \/ TurnOffLiveNeighbors
    \/ \E ip \in Addresses : IsAlreadyNeighbor(ip)
    \/ \E ip \in Addresses : UnregisterNeighbor(ip)
    \/ \E ip \in Addresses : TurnNeighborOn(ip)
    \/ \E ip \in Addresses : IsAliveNeighbor(ip)
    \/ \E ip \in Addresses : GetNeighborTrust(ip)
    \/ \E ip \in Addresses : GetNeighborCompetence(ip)
    \/ \E ip \in Addresses : GetNeighborInterests(ip)
    \/ \E cl \in CompetenceLists : GetPlusTrustNeighbor(cl)
    \/ \E ip \in Addresses, d \in CriticalDatas :
          /\ RecordsLeft
          /\ RegisterAttendingCall(ip, d, LookupPriority(d), 10)
    \/ GetNPendingAttending
    \/ \E ip \in Addresses : CloseAttending(ip)
    \/ GetAttendingIpList
    \/ \E ip \in Addresses : GetAttendingCriticalData(ip)
    \/ \E ip \in Addresses : GetAttendingPriority(ip)

SpecLookup == Init /\ [][NextLookup]_vars

\* GetPlusTrustNeighbor with competence lists about as long as the loop
\* counter is wide: one label repeated 255, 256 or 257 times, and 256 times
\* one label followed by the other.
LongCompetenceLists ==
    {[k \in 1..n |-> c] :
        n \in {Uint8Values - 1, Uint8Values, Uint8Values + 1},
        c \in Competences}
    \cup {[k \in 1..(Uint8Values + 1) |->
              IF k <= Uint8Values THEN c ELSE d] :
           c \in Competences, d \in Competences}

NextLongLists ==
    \/ \E ip \in Addresses, c \in Competences, t \in Trusts :
          RegisterNeighbor(ip, c, <<"vitals">>, t)
    \/ \E ip \in Addresses : UnregisterNeighbor(ip)
    \/ \E cl \in LongCompetenceLists : GetPlusTrustNeighbor(cl)

SpecLongLists == Init /\ [][NextLongLists]_vars

\* The three registries of one node together, with one device, handlers
\* for all devices and all protocols, doctors of trust 4 and attending calls
\* of critical data InfoA; the registries hold MaxRecords entries in all.
NodeRecordsLeft ==
    Len(m_handlers) + Len(m_neighborList) + Len(m_attendingList) < MaxRecords

NextNode ==
    \/ AddDevice("dev1")
    \/ \E h \in Handlers, m \in BOOLEAN :
          /\ NodeRecordsLeft
          /\ RegisterProtocolHandler(h, 0, NoDevice, m)
    \/ \E h \in Handlers : UnregisterProtocolHandler(h)
    \/ \E c \in Contexts : NonPromiscReceiveFromDevice("dev1", 2048, c)
    \/ \E c \in Contexts :
          PromiscReceiveFromDevice("dev1", 2048, "mac_other", 4, c)
    \/ DoDispose
    \/ \E ip \in Addresses :
          /\ NodeRecordsLeft
          /\ RegisterNeighbor(ip, "doctor", <<"vitals">>, 4)
    \/ GetNeighborIpList
    \/ TurnOffLiveNeighbors
    \/ \E ip \in Addresses : IsAlreadyNeighbor(ip)
    \/ \E ip \in Addresses : UnregisterNeighbor(ip)
    \/ UnregisterOffNeighbors
    \/ \E ip \in Addresses : TurnNeighborOn(ip)
    \/ IsThereAnyNeighbor
    \/ \E ip \in Addresses : IsAliveNeighbor(ip)
    \/ \E ip \in Addresses : GetNeighborTrust(ip)
    \/ \E ip \in Addresses : GetNeighborCompetence(ip)
    \/ \E ip \in Addresses : GetNeighborInterests(ip)
    \/ GetNNeighbors
    \/ \E cl \in {<<>>, <<"doctor">>} : GetPlusTrustNeighbor(cl)
    \/ \E ip \in Addresses :
          /\ NodeRecordsLeft
          /\ RegisterAttendingCall(ip, "InfoA", 1, 10)
    \/ GetNPendingAttending
    \/ \E ip \in Addresses : CloseAttending(ip)
    \/ GetAttendingIpList
    \/ \E ip \in Addresses : GetAttendingCriticalData(ip)
    \/ \E ip \in Addresses : GetAttendingPriority(ip)

SpecNode == Init /\ [][NextNode]_vars

Next ==
    \/ NextDevices
    \/ NextHandlers
    \/ NextNeighbors
    \/ NextAttending
    \/ NextReentrant
    \/ NextLookup
    \/ NextLongLists
    \/ NextNode

Spec == Init /\ [][Next]_vars

\* The positions of the records of l with address ip.
PositionsOf(l, ip) == {k \in 1..Len(l) : l[k].ip = ip}

\* At most one record of l per address.
OnePerAddress(l) ==
    \A j, k \in 1..Len(l) : l[j].ip = l[k].ip => j = k

\* The last call was a frame delivery that returned.
Dispatched ==
    /\ call.op \in {"NonPromiscReceiveFromDevice", "PromiscReceiveFromDevice"}
    /\ ~fault

\* The positions of the entries of the registry that the frame of the last
\* delivery matches.
MatchingEntries ==
    {k \in 1..Len(m_handlers) :
        /\ m_handlers[k].device \in {NoDevice, call.device}
        /\ m_handlers[k].protocol \in {0, call.protocol}
        /\ m_handlers[k].promiscuous = call.promiscuous}

\* C1: a delivery of a frame (device d, protocol p, mode flag m) that
\* returns has invoked the entries whose device filter is absent or d, whose
\* protocol filter is 0 or p and whose promiscuous flag is m, each exactly
\* once, no other entry, in registration order.
C1_DispatchInvokesMatching ==
    Dispatched =>
        /\ {invoked[k].entry : k \in 1..Len(invoked)} = MatchingEntries
        /\ \A j, k \in 1..Len(invoked) :
              j < k => invoked[j].entry < invoked[k].entry
        /\ \A k \in 1..Len(invoked) :
              invoked[k].handler = m_handlers[invoked[k].entry].handler

\* A delivery that invoked two entries with different handlers, the second
\* after the first had matched.
C1_Witness ==
    /\ Dispatched
    /\ Len(invoked) = 2
    /\ invoked[1].handler # invoked[2].handler
    /\ m_handlers[1].device # m_handlers[2].device

\* C2: a delivery that returns, returns true exactly when it invoked an
\* entry, which is exactly when some entry matches the frame; so it returns
\* false on an empty registry and when entries exist but none matches.
C2_DispatchFound ==
    Dispatched =>
        /\ ret = (invoked # <<>>)
        /\ ret = (MatchingEntries # {})
        /\ (m_handlers = <<>> => ret = FALSE)

\* A delivery that returned false on a registry with two entries, none of
\* which matched the frame.
C2_Witness ==
    /\ Dispatched
    /\ Len(m_handlers) = 2
    /\ ret = FALSE

\* Some record of nl has competence c and trust above 0.
Qualifies(nl, c) ==
    \E k \in 1..Len(nl) : nl[k].competence = c /\ nl[k].trust > 0

\* The record of nl the claim C3 names for the list cl, when some label
\* qualifies: of the first qualifying label, with the maximum trust, the
\* earliest on ties.
ChosenByPriority(nl, cl) ==
    LET i == CHOOSE i \in 1..Len(cl) :
                 /\ Qualifies(nl, cl[i])
                 /\ \A j \in 1..(i - 1) : ~Qualifies(nl, cl[j])
        tier == {k \in 1..Len(nl) : nl[k].competence = cl[i]}
    IN  CHOOSE k \in tier :
            \A j \in tier : \/ nl[j].trust < nl[k].trust
                            \/ nl[j].trust = nl[k].trust /\ k <= j

\* The last call was GetPlusTrustNeighbor with a list of which some label
\* qualifies.
PlusTrustCalled ==
    /\ call.op = "GetPlusTrustNeighbor"
    /\ \E i \in 1..Len(call.competences) :
          Qualifies(m_neighborList, call.competences[i])

\* C3: GetPlusTrustNeighbor (L) returns the address of the record with the
\* maximum trust, the earliest on ties, among the records of the first label
\* of L that has a record with trust above 0; labels without such a record
\* are skipped and later labels are not scanned.
C3_PlusTrustByPriority ==
    PlusTrustCalled =>
        /\ ~fault
        /\ ret = m_neighborList[ChosenByPriority(m_neighborList,
                                                 call.competences)].ip

\* The lower-trust doctor is returned, not the higher-trust nurse.
C3_Witness ==
    /\ PlusTrustCalled
    /\ call.competences = <<"doctor", "nurse">>
    /\ Len(m_neighborList) = 2
    /\ m_neighborList[1] = [ip |-> "ip1", competence |-> "nurse",
                            interests |-> <<"vitals">>, trust |-> 9,
                            around |-> TRUE]
    /\ m_neighborList[2].competence = "doctor"
    /\ m_neighborList[2].trust = 4
    /\ m_neighborList[2].ip = "ip2"
    /\ ret = "ip2"

\* C4 as claimed: the address GetPlusTrustNeighbor returns is that of a
\* record whose around flag is true.
C4_ReturnsReachablePeer ==
    PlusTrustCalled =>
        \E k \in 1..Len(m_neighborList) :
            m_neighborList[k].ip = ret /\ m_neighborList[k].around

\* C4, amended: when some label of the list qualifies, the address
\* GetPlusTrustNeighbor returns is that of a record of the directory with a
\* listed competence and trust above 0, whatever its around flag.
C4_ReturnsListedTrustedRecord ==
    PlusTrustCalled =>
        /\ ~fault
        /\ \E k \in 1..Len(m_neighborList) :
              /\ m_neighborList[k].ip = ret
              /\ m_neighborList[k].trust > 0
              /\ \E i \in 1..Len(call.competences) :
                    m_neighborList[k].competence = call.competences[i]

\* GetPlusTrustNeighbor returned an address all of whose records are stale.
C4_Witness ==
    /\ PlusTrustCalled
    /\ ~fault
    /\ \E k \in 1..Len(m_neighborList) : m_neighborList[k].ip = ret
    /\ \A k \in 1..Len(m_neighborList) :
          m_neighborList[k].ip = ret => ~m_neighborList[k].around

\* C5 as claimed: at most one neighbor record per address.
C5_OneNeighborPerAddress == OnePerAddress(m_neighborList)

\* The last call was RegisterNeighbor for an address that had a record.
RegisteredPresentNeighbor ==
    /\ call.op = "RegisterNeighbor"
    /\ PositionsOf(old.neighbors, call.ip) # {}

\* C5, amended: a call on a directory with at most one record per address
\* leaves at most one record per address, unless it is a RegisterNeighbor
\* for an address that has a record.
C5_OnePerAddressUnlessReRegistered ==
    (OnePerAddress(old.neighbors) /\ ~RegisteredPresentNeighbor)
        => OnePerAddress(m_neighborList)

\* A second address was registered and the directory holds one record each.
C5_Witness ==
    /\ call.op = "RegisterNeighbor"
    /\ Len(old.neighbors) = 1
    /\ ~RegisteredPresentNeighbor
    /\ Len(m_neighborList) = 2
    /\ OnePerAddress(m_neighborList)

\* C6 as claimed: at most one attending record per address.
C6_OneAttendingPerAddress == OnePerAddress(m_attendingList)

\* The last call was RegisterAttendingCall for an address that had a record.
RegisteredPresentAttending ==
    /\ call.op = "RegisterAttendingCall"
    /\ PositionsOf(old.attending, call.ip) # {}

\* C6, amended: a call on a queue with at most one record per address
\* leaves at most one record per address, unless it is a
\* RegisterAttendingCall for an address that has a record.
C6_OnePerAddressUnlessReOpened ==
    (OnePerAddress(old.attending) /\ ~RegisteredPresentAttending)
        => OnePerAddress(m_attendingList)

\* A second address was opened and the queue holds one record each.
C6_Witness ==
    /\ call.op = "RegisterAttendingCall"
    /\ Len(old.attending) = 1
    /\ ~RegisteredPresentAttending
    /\ Len(m_attendingList) = 2
    /\ OnePerAddress(m_attendingList)

\* C7: after TurnOffLiveNeighbors and then TurnNeighborOn for exactly the
\* addresses of a set S, with no other mutation of the directory,
\* IsAliveNeighbor (x) is true exactly for the registered x in S: the
\* directory answers so, and so did the last call when it was
\* IsAliveNeighbor.  With S empty it is false for every registered address.
C7_AliveIffConfirmed ==
    round.open =>
        /\ \A x \in Addresses :
              PositionsOf(m_neighborList, x) # {} =>
                  IsAliveNeighborOf(m_neighborList, x) = (x \in round.confirmed)
        /\ (call.op = "IsAliveNeighbor"
            /\ PositionsOf(m_neighborList, call.ip) # {})
              => (~fault /\ ret = (call.ip \in round.confirmed))

\* Two addresses are registered, one was confirmed since TurnOffLiveNeighbors
\* and IsAliveNeighbor returned false for the other.
C7_Witness ==
    /\ round.open
    /\ round.confirmed = {"ip1"}
    /\ PositionsOf(m_neighborList, "ip1") # {}
    /\ call = [op |-> "IsAliveNeighbor", ip |-> "ip2"]
    /\ PositionsOf(m_neighborList, "ip2") # {}
    /\ ret = FALSE

\* C8 as claimed: UnregisterOffNeighbors deletes every record whose around
\* flag is false and keeps the others, unmodified and in order; so after
\* TurnOffLiveNeighbors it leaves the directory empty.
C8_RemovesExactlyTheStale ==
    call.op = "UnregisterOffNeighbors" =>
        /\ ~fault
        /\ m_neighborList = SelectSeq(old.neighbors, LAMBDA r : r.around)
        /\ ((\A k \in 1..Len(old.neighbors) : ~old.neighbors[k].around)
              => ~IsThereAnyNeighborOf(m_neighborList))

\* C9: UnregisterNeighbor (a) on a directory with no record for a leaves
\* every record as it was and does not fault; with a record for a it removes
\* the first one with that address and nothing else, the other records
\* keeping their content and order.
C9_UnregisterRemovesFirst ==
    call.op = "UnregisterNeighbor" =>
        /\ ~fault
        /\ (PositionsOf(old.neighbors, call.ip) = {}
              => m_neighborList = old.neighbors)
        /\ (PositionsOf(old.neighbors, call.ip) # {}
              => \E k \in PositionsOf(old.neighbors, call.ip) :
                    /\ \A j \in PositionsOf(old.neighbors, call.ip) : k <= j
                    /\ Len(m_neighborList) = Len(old.neighbors) - 1
                    /\ \A j \in 1..Len(m_neighborList) :
                          m_neighborList[j] =
                              old.neighbors[IF j < k THEN j ELSE j + 1])

\* The address had two records; the first was removed and the second stays.
C9_Witness ==
    /\ call.op = "UnregisterNeighbor"
    /\ Len(old.neighbors) = 2
    /\ PositionsOf(old.neighbors, call.ip) = {1, 2}
    /\ old.neighbors[1] # old.neighbors[2]
    /\ m_neighborList = <<old.neighbors[2]>>

\* C10 as claimed: after UnregisterNeighbor (a), a second UnregisterNeighbor
\* (a) changes nothing; after CloseAttending (a), a second CloseAttending
\* (a) changes nothing.
C10_RemovalIdempotent ==
    /\ call.op = "UnregisterNeighbor"
          => UnregisterNeighborList(m_neighborList, call.ip) = m_neighborList
    /\ call.op = "CloseAttending"
          => CloseAttendingList(m_attendingList, call.ip) = m_attendingList

\* C10, amended: the same, when the address had at most one record before
\* the first call.
C10_RemovalIdempotentOnePerAddress ==
    /\ (call.op = "UnregisterNeighbor"
        /\ Cardinality(PositionsOf(old.neighbors, call.ip)) <= 1)
          => UnregisterNeighborList(m_neighborList, call.ip) = m_neighborList
    /\ (call.op = "CloseAttending"
        /\ Cardinality(PositionsOf(old.attending, call.ip)) <= 1)
          => CloseAttendingList(m_attendingList, call.ip) = m_attendingList

\* CloseAttending removed the only record of its address and left another
\* record, while the directory holds a neighbor.
C10_Witness ==
    /\ call.op = "CloseAttending"
    /\ Len(old.attending) = 2
    /\ Cardinality(PositionsOf(old.attending, call.ip)) = 1
    /\ Len(m_attendingList) = 1
    /\ m_neighborList # <<>>

\* C11 as claimed: once UnregisterProtocolHandler (h) has returned, a frame
\* delivery that follows it, with no registration in between, invokes no
\* entry whose handler is h.
C11_NeverInvokedAfterUnregister ==
    [][(/\ call.op = "UnregisterProtocolHandler"
        /\ call'.op \in {"NonPromiscReceiveFromDevice",
                         "PromiscReceiveFromDevice"})
          => \A k \in 1..Len(invoked') : invoked'[k].handler # call.handler]_vars

\* The positions of the entries of hs whose handler is h.
EntriesOf(hs, h) == {k \in 1..Len(hs) : hs[k].handler = h}

C15_PromiscSetAtRegistrationOnly ==
    [][/\ (call'.op = "RegisterProtocolHandler" /\ call'.promiscuous
           /\ call'.device # NoDevice)
             => promiscCb' = promiscCb \cup {call'.device}
       /\ (call'.op = "RegisterProtocolHandler" /\ call'.promiscuous
           /\ call'.device = NoDevice)
             => promiscCb' = promiscCb \cup {m_devices[k] : k \in 1..Len(m_devices)}
       /\ (call'.op = "RegisterProtocolHandler" /\ ~call'.promiscuous)
             => promiscCb' = promiscCb
       /\ call'.op = "AddDevice" => promiscCb' = promiscCb]_vars

\* A device was added after a promiscuous registration for all devices that
\* had set the callback on the device then in the list; the new device does
\* not have the callback.
C15_Witness ==
    /\ call.op = "AddDevice"
    /\ Len(m_devices) = 2
    /\ \E k \in 1..Len(m_handlers) :
          m_handlers[k].promiscuous /\ m_handlers[k].device = NoDevice
    /\ m_devices[1] \in promiscCb
    /\ call.device \notin promiscCb

\* C16: a frame delivered by NonPromiscReceiveFromDevice is dispatched with
\* mode flag false, the device's own address as receiver and packet type 0,
\* and reaches only entries registered with promiscuous = false; a frame
\* delivered by PromiscReceiveFromDevice is dispatched with mode flag true,
\* the receiver and packet type of the caller, and reaches only entries
\* registered with promiscuous = true.
C16_PathSetsModeReceiverAndType ==
    /\ (call.op = "NonPromiscReceiveFromDevice" /\ ~fault) =>
          /\ call.promiscuous = FALSE
          /\ \A k \in 1..Len(invoked) :
                /\ invoked[k].to = (IF call.device = "dev1" THEN "mac_dev1"
                                    ELSE "mac_dev2")
                /\ invoked[k].packetType = 0
                /\ m_handlers[invoked[k].entry].promiscuous = FALSE
    /\ (call.op = "PromiscReceiveFromDevice" /\ ~fault) =>
          /\ call.promiscuous = TRUE
          /\ call.to \in ToAddresses
          /\ call.packetType \in PacketTypes
          /\ \A k \in 1..Len(invoked) :
                /\ invoked[k].to = call.to
                /\ invoked[k].packetType = call.packetType
                /\ m_handlers[invoked[k].entry].promiscuous = TRUE

\* A frame of the non-promiscuous path reached the non-promiscuous entry and
\* not the promiscuous entry with the same filters.
C16_Witness ==
    /\ call.op = "NonPromiscReceiveFromDevice"
    /\ ~fault
    /\ Len(m_handlers) = 2
    /\ m_handlers[1].promiscuous
    /\ ~m_handlers[2].promiscuous
    /\ m_handlers[1].device = NoDevice /\ m_handlers[2].device = NoDevice
    /\ m_handlers[1].protocol = 0 /\ m_handlers[2].protocol = 0
    /\ Len(invoked) = 1
    /\ invoked[1].entry = 2
    /\ invoked[1].to = "mac_dev2"

\* C13: RegisterAttendingCall raises GetNPendingAttending by exactly 1;
\* CloseAttending (a) lowers it by exactly 1 and removes the first record
\* with address a when there is one, and changes nothing and raises no fault
\* when the list is empty or has no record for a.
C13_QueueCounting ==
    /\ call.op = "RegisterAttendingCall" =>
          /\ ~fault
          /\ GetNPendingAttendingOf(m_attendingList)
                = GetNPendingAttendingOf(old.attending) + 1
    /\ call.op = "CloseAttending" =>
          /\ ~fault
          /\ (PositionsOf(old.attending, call.ip) = {}
                => m_attendingList = old.attending)
          /\ (PositionsOf(old.attending, call.ip) # {}
                => \E k \in PositionsOf(old.attending, call.ip) :
                      /\ \A j \in PositionsOf(old.attending, call.ip) : k <= j
                      /\ GetNPendingAttendingOf(m_attendingList)
                            = GetNPendingAttendingOf(old.attending) - 1
                      /\ \A j \in 1..Len(m_attendingList) :
                            m_attendingList[j]
                               = old.attending[IF j < k THEN j ELSE j + 1])
    /\ call.op = "GetNPendingAttending" => ret = Len(m_attendingList)

\* CloseAttending removed the first of two records of one address that
\* differ in critical data, in a list that also holds another address.
C13_Witness ==
    /\ call.op = "CloseAttending"
    /\ Len(old.attending) = 3
    /\ old.attending[1].ip # call.ip
    /\ old.attending[2].ip = call.ip
    /\ old.attending[3].ip = call.ip
    /\ old.attending[2].criticalData # old.attending[3].criticalData
    /\ m_attendingList = <<old.attending[1], old.attending[3]>>

\* C12: after RegisterNeighbor (a, c, I, t) for an address a that the
\* directory did not hold, IsAlreadyNeighbor (a) and IsAliveNeighbor (a) are
\* true, GetNeighborCompetence (a) is c, GetNeighborInterests (a) is I, label
\* for label in the same order, and GetNeighborTrust (a) is t.
C12_RegisterRoundTrip ==
    (/\ call.op = "RegisterNeighbor"
     /\ ~IsAlreadyNeighborOf(old.neighbors, call.ip))
       => /\ ~fault
          /\ IsAlreadyNeighborOf(m_neighborList, call.ip)
          /\ IsAliveNeighborOf(m_neighborList, call.ip) = TRUE
          /\ GetNeighborCompetenceOf(m_neighborList, call.ip) = call.competence
          /\ Len(GetNeighborInterestsOf(m_neighborList, call.ip))
                = Len(call.interests)
          /\ \A k \in 1..Len(call.interests) :
                GetNeighborInterestsOf(m_neighborList, call.ip)[k]
                   = call.interests[k]
          /\ GetNeighborTrustOf(m_neighborList, call.ip) = call.trust

\* A nurse was registered for a new address after a doctor of another
\* address, whose record is off and lists the same interests in the
\* opposite order.
C12_Witness ==
    /\ call.op = "RegisterNeighbor"
    /\ call.competence = "nurse"
    /\ call.interests = <<"alerts", "vitals">>
    /\ Len(old.neighbors) = 1
    /\ old.neighbors[1].ip # call.ip
    /\ old.neighbors[1].around = FALSE
    /\ old.neighbors[1].interests = <<"vitals", "alerts">>
    /\ Len(m_neighborList) = 2
    /\ m_neighborList[2].around = TRUE

\* C14 as claimed: IsAliveNeighbor, GetNeighborTrust, GetNeighborCompetence
\* and GetNeighborInterests for an address the directory does not hold,
\* GetAttendingCriticalData and GetAttendingPriority for an address the
\* attending list does not hold, and GetPlusTrustNeighbor when no record of
\* a listed competence has trust > 0, end in a fault, return no value and
\* leave the registries as they were.
C14_PreconditionViolationsFault ==
    /\ (/\ call.op \in {"IsAliveNeighbor", "GetNeighborTrust",
                        "GetNeighborCompetence", "GetNeighborInterests"}
        /\ ~IsAlreadyNeighborOf(old.neighbors, call.ip))
          => /\ fault
             /\ ret = "abort"
             /\ m_neighborList = old.neighbors
             /\ m_attendingList = old.attending
    /\ (/\ call.op \in {"GetAttendingCriticalData", "GetAttendingPriority"}
        /\ PositionsOf(old.attending, call.ip) = {})
          => /\ fault
             /\ ret = "abort"
             /\ m_neighborList = old.neighbors
             /\ m_attendingList = old.attending
    /\ (/\ call.op = "GetPlusTrustNeighbor"
        /\ \A k \in 1..Len(call.competences) :
              ~Qualifies(old.neighbors, call.competences[k]))
          => /\ fault
             /\ m_neighborList = old.neighbors
             /\ m_attendingList = old.attending

\* l holds more than one record with address ip.
Duplicated(l, ip) == \E j, k \in PositionsOf(l, ip) : j # k

\* The position of the earliest-inserted record of l with address ip.
Earliest(l, ip) ==
    CHOOSE k \in PositionsOf(l, ip) : \A j \in PositionsOf(l, ip) : k <= j

\* C17: when the registry holds more than one record of the address of a
\* by-address call, the call acts on the earliest-inserted of them:
\* IsAliveNeighbor and the three neighbor getters return its fields,
\* TurnNeighborOn sets its flag, UnregisterNeighbor removes it,
\* GetAttendingCriticalData and GetAttendingPriority return its fields and
\* CloseAttending removes it; every other record is left as it was.
C17_FirstMatchUnderDuplicates ==
    /\ (/\ call.op \in {"IsAliveNeighbor", "GetNeighborTrust",
                        "GetNeighborCompetence", "GetNeighborInterests",
                        "TurnNeighborOn", "UnregisterNeighbor"}
        /\ Duplicated(old.neighbors, call.ip))
          => LET first == Earliest(old.neighbors, call.ip)
             IN  /\ ~fault
                 /\ call.op = "IsAliveNeighbor" =>
                       /\ ret = old.neighbors[first].around
                       /\ m_neighborList = old.neighbors
                 /\ call.op = "GetNeighborTrust" =>
                       /\ ret = old.neighbors[first].trust
                       /\ m_neighborList = old.neighbors
                 /\ call.op = "GetNeighborCompetence" =>
                       /\ ret = old.neighbors[first].competence
                       /\ m_neighborList = old.neighbors
                 /\ call.op = "GetNeighborInterests" =>
                       /\ ret = old.neighbors[first].interests
                       /\ m_neighborList = old.neighbors
                 /\ call.op = "TurnNeighborOn" =>
                       m_neighborList
                          = [old.neighbors EXCEPT ![first].around = TRUE]
                 /\ call.op = "UnregisterNeighbor" =>
                       m_neighborList
                          = SubSeq(old.neighbors, 1, first - 1)
                               \o SubSeq(old.neighbors, first + 1,
                                         Len(old.neighbors))
    /\ (/\ call.op \in {"GetAttendingCriticalData", "GetAttendingPriority",
                        "CloseAttending"}
        /\ Duplicated(old.attending, call.ip))
          => LET first == Earliest(old.attending, call.ip)
             IN  /\ ~fault
                 /\ call.op = "GetAttendingCriticalData" =>
                       /\ ret = old.attending[first].criticalData
                       /\ m_attendingList = old.attending
                 /\ call.op = "GetAttendingPriority" =>
                       /\ ret = old.attending[first].attendingPriority
                       /\ m_attendingList = old.attending
                 /\ call.op = "CloseAttending" =>
                       m_attendingList
                          = SubSeq(old.attending, 1, first - 1)
                               \o SubSeq(old.attending, first + 1,
                                         Len(old.attending))

\* TurnNeighborOn for an address with two records, both off, of different
\* competence: the first is on, the second still off.
C17_Witness ==
    /\ call.op = "TurnNeighborOn"
    /\ Len(old.neighbors) = 2
    /\ old.neighbors[1].ip = call.ip
    /\ old.neighbors[2].ip = call.ip
    /\ old.neighbors[1].competence # old.neighbors[2].competence
    /\ ~old.neighbors[1].around
    /\ ~old.neighbors[2].around
    /\ m_neighborList[1].around
    /\ ~m_neighborList[2].around

\* The addresses of the records of l, one per record, in list order.
AddressesOf(l) == [k \in 1..Len(l) |-> l[k].ip]

\* l is was with the record at one position taken out and the others kept
\* in their order.
OneErased(was, l) ==
    \E k \in 1..Len(was) :
       /\ Len(l) = Len(was) - 1
       /\ \A j \in 1..Len(l) : l[j] = was[IF j < k THEN j ELSE j + 1]

\* l is was followed by one new record, of address ip.
OneAppended(was, l, ip) ==
    /\ Len(l) = Len(was) + 1
    /\ \A j \in 1..Len(was) : l[j] = was[j]
    /\ l[Len(l)].ip = ip

\* C18: GetNeighborIpList and GetAttendingIpList return the addresses of
\* all the records, one per record, in list order; RegisterNeighbor and
\* RegisterAttendingCall put the new record last, whatever its priority;
\* UnregisterNeighbor and CloseAttending take out at most one record and
\* keep the others in their order; no other call changes the addresses or
\* their order.
C18_SnapshotInInsertionOrder ==
    ~fault =>
       /\ call.op = "GetNeighborIpList" => ret = AddressesOf(m_neighborList)
       /\ call.op = "GetAttendingIpList" => ret = AddressesOf(m_attendingList)
       /\ IF call.op = "RegisterNeighbor"
          THEN OneAppended(old.neighbors, m_neighborList, call.ip)
          ELSE IF call.op = "UnregisterNeighbor"
          THEN \/ m_neighborList = old.neighbors
               \/ OneErased(old.neighbors, m_neighborList)
          ELSE AddressesOf(m_neighborList) = AddressesOf(old.neighbors)
       /\ IF call.op = "RegisterAttendingCall"
          THEN OneAppended(old.attending, m_attendingList, call.ip)
          ELSE IF call.op = "CloseAttending"
          THEN \/ m_attendingList = old.attending
               \/ OneErased(old.attending, m_attendingList)
          ELSE m_attendingList = old.attending

\* GetAttendingIpList on a list of three calls whose second has a higher
\* priority than the first and whose third has a lower one than the second:
\* the addresses come in list order.
C18_Witness ==
    /\ call.op = "GetAttendingIpList"
    /\ Len(m_attendingList) = 3
    /\ m_attendingList[1].attendingPriority < m_attendingList[2].attendingPriority
    /\ m_attendingList[3].attendingPriority < m_attendingList[2].attendingPriority
    /\ m_attendingList[1].ip # m_attendingList[2].ip
    /\ ret = <<m_attendingList[1].ip, m_attendingList[2].ip,
               m_attendingList[3].ip>>

\* C19: RegisterDeviceAdditionListener (l) appends l and calls it once for
\* each device of the list, in list order; AddDevice (d) calls each listener
\* of the list once with d, in list order; UnregisterDeviceAdditionListener
\* (l) erases the first registration of l, if any, and calls no listener;
\* so a registration that was erased is called no more, and one that stays
\* is called exactly once for each device.
C19_ListenersNotifiedOncePerDevice ==
    [][/\ call'.op = "RegisterDeviceAdditionListener" =>
             /\ m_deviceAdditionListeners'
                   = m_deviceAdditionListeners \o <<call'.listener>>
             /\ m_devices' = m_devices
             /\ Len(notified') = Len(m_devices)
             /\ \A k \in 1..Len(m_devices) :
                   notified'[k] = [listener |-> call'.listener,
                                   device |-> m_devices[k]]
       /\ call'.op = "AddDevice" =>
             /\ m_deviceAdditionListeners' = m_deviceAdditionListeners
             /\ m_devices' = m_devices \o <<call'.device>>
             /\ Len(notified') = Len(m_deviceAdditionListeners)
             /\ \A k \in 1..Len(m_deviceAdditionListeners) :
                   notified'[k] = [listener |-> m_deviceAdditionListeners[k],
                                   device |-> call'.device]
       /\ call'.op = "UnregisterDeviceAdditionListener" =>
             /\ notified' = <<>>
             /\ m_devices' = m_devices
             /\ LET regs == {k \in 1..Len(m_deviceAdditionListeners) :
                                m_deviceAdditionListeners[k] = call'.listener}
                IN  IF regs = {}
                    THEN m_deviceAdditionListeners' = m_deviceAdditionListeners
                    ELSE \E k \in regs :
                            /\ \A j \in regs : k <= j
                            /\ Len(m_deviceAdditionListeners')
                                  = Len(m_deviceAdditionListeners) - 1
                            /\ \A j \in 1..Len(m_deviceAdditionListeners') :
                                  m_deviceAdditionListeners'[j]
                                     = m_deviceAdditionListeners[
                                          IF j < k THEN j ELSE j + 1]]_vars

\* The second device was added with two listeners registered, the one
\* registered first being the second of Listeners: both were called with
\* the new device only, in registration order.
C19_Witness ==
    /\ call.op = "AddDevice"
    /\ Len(m_devices) = 2
    /\ m_deviceAdditionListeners = <<"l2", "l1">>
    /\ notified = <<[listener |-> "l2", device |-> call.device],
                    [listener |-> "l1", device |-> call.device]>>

\* The records r and q agree on address, competence, interests and trust.
SameIdentity(r, q) ==
    /\ r.ip = q.ip
    /\ r.competence = q.competence
    /\ r.interests = q.interests
    /\ r.trust = q.trust

\* C21: no call changes the address, competence, interests or trust of a
\* record that stays in the directory; TurnOffLiveNeighbors sets around to
\* false on every record; TurnNeighborOn (a) sets around to true on the
\* first record with address a and changes no other record, and with no
\* record for a it changes nothing and adds no record; no other call changes
\* the around flag of a record that stays.
C21_RecordFieldsFrame ==
    ~fault =>
       /\ call.op = "TurnOffLiveNeighbors" =>
             /\ Len(m_neighborList) = Len(old.neighbors)
             /\ \A k \in 1..Len(m_neighborList) :
                   /\ SameIdentity(m_neighborList[k], old.neighbors[k])
                   /\ m_neighborList[k].around = FALSE
       /\ call.op = "TurnNeighborOn" =>
             /\ Len(m_neighborList) = Len(old.neighbors)
             /\ \A k \in 1..Len(m_neighborList) :
                   /\ SameIdentity(m_neighborList[k], old.neighbors[k])
                   /\ m_neighborList[k].around
                         = IF /\ old.neighbors[k].ip = call.ip
                              /\ \A j \in 1..(k - 1) :
                                    old.neighbors[j].ip # call.ip
                           THEN TRUE
                           ELSE old.neighbors[k].around
       /\ call.op = "RegisterNeighbor" =>
             \A k \in 1..Len(old.neighbors) :
                m_neighborList[k] = old.neighbors[k]
       /\ call.op = "UnregisterNeighbor" =>
             \/ m_neighborList = old.neighbors
             \/ OneErased(old.neighbors, m_neighborList)
       /\ call.op = "UnregisterOffNeighbors" =>
             m_neighborList = SelectSeq(old.neighbors, LAMBDA r : r.around)
       /\ call.op \notin {"TurnOffLiveNeighbors", "TurnNeighborOn",
                          "RegisterNeighbor", "UnregisterNeighbor",
                          "UnregisterOffNeighbors"}
             => m_neighborList = old.neighbors

\* TurnNeighborOn for an address with no record, on a directory whose only
\* record is off: the record is still off and no record was added.
C21_Witness ==
    /\ call.op = "TurnNeighborOn"
    /\ Len(old.neighbors) = 1
    /\ old.neighbors[1].ip # call.ip
    /\ ~old.neighbors[1].around
    /\ m_neighborList = old.neighbors

\* The records of l at the positions of S, from position i on, in list order.
RECURSIVE AtPositions(_, _, _)
AtPositions(l, i, S) ==
    IF i > Len(l) THEN <<>>
    ELSE (IF i \in S THEN <<l[i]>> ELSE <<>>) \o AtPositions(l, i + 1, S)

\* C22 as claimed: UnregisterOffNeighbors at the end of a round, that is
\* after TurnOffLiveNeighbors and then TurnNeighborOn and RegisterNeighbor
\* calls only, returns without fault and leaves exactly the records that
\* TurnNeighborOn stopped at or RegisterNeighbor appended in the round, with
\* their fields and in their order, each with around = true.
C22_RoundKeepsConfirmedAndRegistered ==
    (call.op = "UnregisterOffNeighbors" /\ call.round.marked) =>
        /\ ~fault
        /\ m_neighborList = AtPositions(old.neighbors, 1, call.round.live)
        /\ \A k \in 1..Len(m_neighborList) : m_neighborList[k].around

\* C26 as claimed: UnregisterOffNeighbors after TurnOffLiveNeighbors and then
\* TurnNeighborOn calls only, on a directory that may hold several records of
\* one address, returns without fault and leaves at most one record per
\* address: the earliest-inserted record of each address that TurnNeighborOn
\* was called for.
C26_RoundLeavesOnePerAddress ==
    (call.op = "UnregisterOffNeighbors" /\ call.round.open) =>
        /\ ~fault
        /\ OnePerAddress(m_neighborList)
        /\ m_neighborList
              = AtPositions(old.neighbors, 1,
                            {Earliest(old.neighbors, a) :
                                a \in {x \in call.round.confirmed :
                                          PositionsOf(old.neighbors, x) # {}}})

\* The calls that only read the registries.
QueryOps ==
    {"IsThereAnyNeighbor", "IsAlreadyNeighbor", "IsAliveNeighbor",
     "GetNeighborTrust", "GetNeighborCompetence", "GetNeighborInterests",
     "GetNeighborIpList", "GetAttendingIpList", "GetNNeighbors",
     "GetPlusTrustNeighbor", "GetNPendingAttending",
     "GetAttendingCriticalData", "GetAttendingPriority",
     "NonPromiscReceiveFromDevice", "PromiscReceiveFromDevice"}

\* Every entry of was is still in l, at its position.
AllStay(was, l) ==
    /\ Len(was) <= Len(l)
    /\ \A k \in 1..Len(was) : l[k] = was[k]

\* Every neighbor record of was is still in l, at its position, with its
\* address, competence, interests and trust.
AllNeighborsStay(was, l) ==
    /\ Len(was) <= Len(l)
    /\ \A k \in 1..Len(was) : SameIdentity(l[k], was[k])

\* C23: a query or a dispatch that returns leaves the handler list, the
\* neighbor list and the attending list as they were; a neighbor record
\* leaves the list only in UnregisterNeighbor or UnregisterOffNeighbors, an
\* attending record only in CloseAttending, a handler entry only in
\* UnregisterProtocolHandler or DoDispose.
C23_NoImplicitTransitions ==
    /\ (call.op \in QueryOps /\ ~fault) =>
          /\ m_handlers = old.handlers
          /\ m_neighborList = old.neighbors
          /\ m_attendingList = old.attending
    /\ call.op \notin {"UnregisterNeighbor", "UnregisterOffNeighbors"}
          => AllNeighborsStay(old.neighbors, m_neighborList)
    /\ call.op # "CloseAttending"
          => AllStay(old.attending, m_attendingList)
    /\ call.op \notin {"UnregisterProtocolHandler", "DoDispose"}
          => AllStay(old.handlers, m_handlers)

\* DoDispose on a node with a handler, a neighbor and an attending call:
\* the handler is gone, the neighbor and the attending call are still there.
C23_Witness ==
    /\ call.op = "DoDispose"
    /\ Len(old.handlers) = 1
    /\ m_handlers = <<>>
    /\ Len(m_neighborList) = 1
    /\ m_neighborList = old.neighbors
    /\ Len(m_attendingList) = 1
    /\ m_attendingList = old.attending

\* The calls of the neighbor list, of the attending list and of the handler
\* list.
NeighborOps ==
    {"RegisterNeighbor", "GetNeighborIpList", "TurnOffLiveNeighbors",
     "IsAlreadyNeighbor", "UnregisterNeighbor", "UnregisterOffNeighbors",
     "TurnNeighborOn", "IsThereAnyNeighbor", "IsAliveNeighbor",
     "GetNeighborTrust", "GetNeighborCompetence", "GetNeighborInterests",
     "GetNNeighbors", "GetPlusTrustNeighbor"}

AttendingOps ==
    {"RegisterAttendingCall", "GetNPendingAttending", "CloseAttending",
     "GetAttendingIpList", "GetAttendingCriticalData", "GetAttendingPriority"}

HandlerOps == {"RegisterProtocolHandler", "UnregisterProtocolHandler"}

\* C24: a call of the neighbor list leaves the attending list and the
\* handler list as they were, a call of the attending list leaves the
\* neighbor list and the handler list as they were, and
\* RegisterProtocolHandler and UnregisterProtocolHandler leave the neighbor
\* list and the attending list as they were; RegisterAttendingCall succeeds
\* for an address with no neighbor record and adds none.
C24_RegistriesIndependent ==
    /\ call.op \in NeighborOps =>
          /\ m_attendingList = old.attending
          /\ m_handlers = old.handlers
    /\ call.op \in AttendingOps =>
          /\ m_neighborList = old.neighbors
          /\ m_handlers = old.handlers
    /\ call.op \in HandlerOps =>
          /\ m_neighborList = old.neighbors
          /\ m_attendingList = old.attending
    /\ call.op = "RegisterAttendingCall" =>
          /\ ~fault
          /\ Len(m_attendingList) = Len(old.attending) + 1

\* UnregisterNeighbor removed the only record of an address for which an
\* attending call is open, with a handler registered: the attending call
\* and the handler are still there.
C24_Witness ==
    /\ call.op = "UnregisterNeighbor"
    /\ Len(old.neighbors) = 1
    /\ old.neighbors[1].ip = call.ip
    /\ m_neighborList = <<>>
    /\ Len(m_attendingList) = 1
    /\ m_attendingList[1].ip = call.ip
    /\ Len(m_handlers) = 1

\* C25 as claimed: ReceiveFromDevice entered with a context other than the
\* node's id faults on the context assertion and invokes no handler, so
\* handlers are invoked only when the context is the node's id.
C25_HandlersInvokedInOwnContextOnly ==
    call.op \in {"NonPromiscReceiveFromDevice", "PromiscReceiveFromDevice"} =>
        /\ call.context # GetId => (fault /\ invoked = <<>>)
        /\ invoked # <<>> => call.context = GetId

\* C27 as claimed: GetPlusTrustNeighbor returns or aborts for a competence
\* list of any length, after at most one pass over the list: its scan never
\* goes on for ever.
C27_PlusTrustScanEnds ==
    call.op = "GetPlusTrustNeighbor" => ret # "never"

\* C28 as claimed: a dispatch during which an invoked handler calls
\* UnregisterProtocolHandler ends without fault, and has invoked exactly
\* once every entry that matched the frame when it started and was not
\* unregistered, and no entry twice.
C28_ReentrantUnregisterSkipsNothing ==
    call.op = "NonPromiscReceiveReentrant" =>
        LET matched == {k \in 1..Len(old.handlers) :
                           EntryMatches(old.handlers[k], call.device,
                                        call.protocol, FALSE)}
            erased == IF Len(m_handlers) < Len(old.handlers)
                      THEN {HandlerPosition(old.handlers, call.target)}
                      ELSE {}
            times(k) == Cardinality({j \in 1..Len(invoked) :
                                        invoked[j].entry = k})
        IN  /\ ~fault
            /\ \A k \in matched \ erased : times(k) = 1
            /\ \A k \in 1..Len(old.handlers) : times(k) <= 1

====
